---- MODULE Spec2Model ----
(***************************************************************************)
(* The image API of the backend: the router and its authentication         *)
(* middleware, the Image collection, the artifact files on disk, and the   *)
(* handlers of src/controllers/imageController.ts; the User collection     *)
(* and the registration handler of src/controllers/authController.ts.      *)
(*                                                                         *)
(* JavaScript strings that the code takes apart (query parameters, the     *)
(* Authorization header, file names) are sequences of one-character        *)
(* strings (of words for the header); strings the code only compares are   *)
(* TLA+ strings.  JavaScript values of unknown type (request bodies) are   *)
(* records [t |-> type, v |-> value].                                      *)
(***************************************************************************)
EXTENDS Integers, Sequences, FiniteSets, TLC

\* ------------------------------------------------------------------ bounds

\* Number of image records ever created (ObjectIds handed out).
MaxImages == 2
\* Largest value the millisecond clock takes.
MaxClock == 2
\* Number of requests the server accepts in one behaviour.
MaxRequests == 3
\* Files in one upload batch.
MaxBatch == 2
\* Requests in flight (between two awaits) at the same time.
MaxInflight == 2

\* ------------------------------------------------------------ JS values

Undef == [t |-> "undefined"]
Null == [t |-> "null"]
Str(s) == [t |-> "string", v |-> s]
\* A string the code takes apart: the sequence of its characters (or words).
Chars(s) == [t |-> "chars", v |-> s]
Num(n) == [t |-> "number", v |-> n]
Bool(b) == [t |-> "boolean", v |-> b]
NaN == [t |-> "nan"]

\* ToNumber on the strings of the model: "" is 0, a decimal literal is its
\* value, anything else is NaN.
StringToNumber(s) ==
    CASE s = "" -> Num(0)
      [] s = "0" -> Num(0)
      [] s = "1" -> Num(1)
      [] OTHER -> NaN

\* JavaScript's == (abstract equality), on undefined, null, strings, numbers.
LooseEq(a, b) ==
    CASE a.t \in {"undefined", "null"} -> b.t \in {"undefined", "null"}
      [] b.t \in {"undefined", "null"} -> FALSE
      [] a.t = b.t -> a = b
      [] a.t = "string" /\ b.t = "number" -> StringToNumber(a.v) = b
      [] a.t = "number" /\ b.t = "string" -> a = StringToNumber(b.v)
      [] OTHER -> FALSE

\* A JavaScript value used as a condition.
Truthy(x) ==
    CASE x.t \in {"undefined", "null", "nan"} -> FALSE
      [] x.t = "string" -> x.v # ""
      [] x.t = "chars" -> x.v # <<>>
      [] x.t = "number" -> x.v # 0
      [] x.t = "boolean" -> x.v
      [] OTHER -> TRUE

\* ----------------------------------------------------------------- users

Users == {"u1", "u2"}

\* jwt.verify(token, JWT_SECRET): the payload of a token signed with the
\* secret and not expired; anything else throws.
jwtVerify(token) ==
    CASE token = "t_u1" -> [ok |-> TRUE, id |-> Str("u1")]
      [] token = "t_u2" -> [ok |-> TRUE, id |-> Str("u2")]
      [] token = "t_noid" -> [ok |-> TRUE, id |-> Undef]
      [] OTHER -> [ok |-> FALSE, id |-> Undef]

Cookies == {Undef, Str("t_u1"), Str("t_u2"), Str("t_bad"), Str("t_noid")}
\* The Authorization header, split at its spaces.
AuthHeaders ==
    {Undef, Chars(<<"Bearer", "t_u1">>), Chars(<<"Bearer", "t_u2">>),
     Chars(<<"Bearer", "t_bad">>), Chars(<<"Bearer", "">>), Chars(<<"Basic", "t_u1">>)}

\* authHeader && authHeader.startsWith("Bearer ") ? authHeader.split(" ")[1]
headerTokenOf(authHeader) ==
    IF Truthy(authHeader) /\ Len(authHeader.v) >= 2 /\ authHeader.v[1] = "Bearer"
    THEN Str(authHeader.v[2])
    ELSE Undef

\* The middleware reading the payload without checking the signature: a forged
\* token naming u1 passes.
authMiddlewareUnverified(cookieToken, authHeader) ==
    LET headerToken == headerTokenOf(authHeader)
        token == IF Truthy(cookieToken) THEN cookieToken ELSE headerToken
        id == IF token.v = "t_bad" THEN Str("u1") ELSE jwtVerify(token.v).id
    IN  IF ~Truthy(token) THEN [status |-> 401, user |-> "none"]
        ELSE IF ~Truthy(id) THEN [status |-> 401, user |-> "none"]
        ELSE [status |-> 200, user |-> id.v]

\* The middleware's verdict: 200 stands for next(), with req.user.id.
authMiddleware(cookieToken, authHeader) ==
    LET headerToken == headerTokenOf(authHeader)
        token == IF Truthy(cookieToken) THEN cookieToken ELSE headerToken
        decoded == jwtVerify(token.v)
    IN  IF ~Truthy(token) THEN [status |-> 401, user |-> "none"]
        ELSE IF ~decoded.ok THEN [status |-> 401, user |-> "none"]
        ELSE IF ~Truthy(decoded.id) THEN [status |-> 401, user |-> "none"]
        ELSE [status |-> 200, user |-> decoded.id.v]

\* ----------------------------------------------------------------- files

\* An uploaded file (multer, memory storage): its original name and bytes.
OriginalNames == {<<"a", " ", " ", "b">>}
Buffers == {"img1", "corrupt"}
UploadFiles == [originalname : OriginalNames, buffer : Buffers]

\* sharp(buffer).metadata() succeeds on image data and throws on anything else.
Readable(buffer) == buffer # "corrupt"

\* file.size
SizeOf(buffer) == CASE buffer = "img1" -> 10 [] OTHER -> 5

\* originalname.replace(/\s+/g, "_"): each run of whitespace becomes one "_".
RECURSIVE ReplaceWhitespace(_)
ReplaceWhitespace(s) ==
    IF s = <<>> THEN <<>>
    ELSE IF Head(s) = " "
         THEN IF Len(s) >= 2 /\ s[2] = " "
              THEN ReplaceWhitespace(Tail(s))
              ELSE <<"_">> \o ReplaceWhitespace(Tail(s))
         ELSE <<Head(s)>> \o ReplaceWhitespace(Tail(s))

\* `${timestamp}_${safeOriginalName}`: the timestamp is all digits, so the
\* pair determines the string and the string the pair.
StoredFilename(timestamp, originalname) == <<timestamp, ReplaceWhitespace(originalname)>>

\* sha256(buffer ++ String(Date.now())), taken as collision free: equal
\* digests come from equal bytes and equal clock readings only.
Fingerprint(buffer, time) == [bytes |-> buffer, salt |-> time]

OriginalUrl(filename) == <<"uploads", "originals", filename>>
ThumbnailUrl(filename) == <<"uploads", "thumbnails", filename>>
\* path.basename
Basename(url) == url[Len(url)]

\* All upload batches up to MaxBatch files.
Batches == UNION {[1..n -> UploadFiles] : n \in 0..MaxBatch}

\* ----------------------------------------------------------------- state

VARIABLES
    images,      \* the Image collection: _id -> document
    originals,   \* files present in uploads/originals
    thumbnails,  \* files present in uploads/thumbnails
    now,         \* Date.now()
    nextId,      \* the next ObjectId
    nreq,        \* requests accepted so far
    inflight,    \* handlers suspended at an await
    fsq,         \* fs callbacks issued and not yet run
    openai,      \* whether OPENAI_API_KEY was set when the server started
    res,         \* the last response sent
    lastCred,    \* history: the credentials of the last request accepted
    deleted,     \* history: the documents whose DELETE was answered 200, and
                 \* whether an artifact was missing when the handler started
    views,       \* history: per document, the lookups by hash answered 200 and
                 \* whether one of them started while another was in flight
    users        \* the User collection, in the order of creation

vars == <<images, originals, thumbnails, now, nextId, nreq, inflight, fsq, openai, res,
          lastCred, deleted, views, users>>

Ids == 1..MaxImages

NoResponse == [rid |-> 0, route |-> "none", user |-> "none", status |-> 0]

Init ==
    /\ images = <<>>
    /\ originals = {}
    /\ thumbnails = {}
    /\ now = 1
    /\ nextId = 1
    /\ nreq = 0
    /\ inflight = {}
    /\ fsq = {}
    /\ openai \in BOOLEAN
    /\ res = NoResponse
    /\ lastCred = [route |-> "none", cookie |-> Undef, header |-> Undef]
    /\ deleted = {}
    /\ views = <<>>
    /\ users = <<>>

\* Documents matching { hash }.
ByHash(h) == {i \in DOMAIN images : images[i].hash = h}

\* A lookup by _id alone, whoever the owner.
FindOwnedAnyUser(id, userId) == IF id \in DOMAIN images THEN {id} ELSE {}

\* Image.findOne({ _id: id, user: userId })
FindOwned(id, userId) ==
    IF id \in DOMAIN images /\ images[id].user = userId THEN {id} ELSE {}

\* A new request can be accepted.
CanAccept == nreq < MaxRequests

\* The clock moves on.
Tick ==
    /\ now < MaxClock
    /\ now' = now + 1
    /\ UNCHANGED <<lastCred, images, originals, thumbnails, nextId, nreq, inflight, fsq, openai, res,
                   deleted, views, users>>

\* router.use(authMiddleware): a request that fails it is answered 401 and
\* its handler never runs.
Reject401(route) ==
    /\ res' = [rid |-> nreq + 1, route |-> route, user |-> "none", status |-> 401]
    /\ nreq' = nreq + 1
    /\ UNCHANGED <<images, originals, thumbnails, now, nextId, inflight, fsq, openai, deleted, views, users>>

\* ---------------------------------------------------------------- upload

\* ObjectIds the uploads in flight may still take.
Remaining(p) == IF p.op = "upload" THEN Len(p.files) - p.i + 1 ELSE 0

RECURSIVE ReservedIn(_)
ReservedIn(S) ==
    IF S = {} THEN 0
    ELSE LET p == CHOOSE q \in S : TRUE IN Remaining(p) + ReservedIn(S \ {p})

Reserved == ReservedIn(inflight)

\* uploadMultipleImages up to its first await: 400 on an empty batch.
uploadMultipleImages(userId, files) ==
    /\ nreq' = nreq + 1
    /\ IF Len(files) = 0
       THEN /\ res' = [rid |-> nreq + 1, route |-> "upload", user |-> userId, status |-> 400,
                       files |-> files, reached |-> 0, body |-> <<>>, error |-> "No files uploaded"]
            /\ UNCHANGED inflight
       ELSE /\ Cardinality(inflight) < MaxInflight
            /\ nextId + Reserved + Len(files) - 1 <= MaxImages
            /\ inflight' = inflight \cup
                 {[rid |-> nreq + 1, op |-> "upload", user |-> userId, pc |-> "meta",
                   files |-> files, i |-> 1, created |-> <<>>,
                   filename |-> <<>>, hash |-> <<>>]}
            /\ UNCHANGED res
    /\ UNCHANGED <<images, originals, thumbnails, now, nextId, fsq, openai, deleted, views, users>>

\* The catch block: 500, whatever was created so far stays.
UploadFails(p, message) ==
    /\ inflight' = inflight \ {p}
    /\ res' = [rid |-> p.rid, route |-> "upload", user |-> p.user, status |-> 500,
               files |-> p.files, reached |-> p.i, body |-> <<>>, error |-> message]

\* Lines 308-322: the stored filename from the clock, then sharp's metadata.
UploadMeta(p) ==
    /\ p.op = "upload" /\ p.pc = "meta"
    /\ LET file == p.files[p.i] IN
       IF Readable(file.buffer)
       THEN /\ inflight' = (inflight \ {p}) \cup
                 {[p EXCEPT !.pc = "write",
                            !.filename = StoredFilename(now, file.originalname)]}
            /\ UNCHANGED res
       ELSE UploadFails(p, "unsupported image format")
    /\ UNCHANGED <<lastCred, images, originals, thumbnails, now, nextId, nreq, fsq, openai, deleted, views, users>>

\* Lines 326-337: the fingerprint from the bytes and a second clock reading,
\* then both artifact writes, awaited together.  A write can fail; the other
\* one is not cancelled.
WriteOutcomes == {"ok", "original_failed", "thumbnail_failed"}

UploadWrite(p, outcome) ==
    /\ p.op = "upload" /\ p.pc = "write"
    /\ originals' = IF outcome = "original_failed" THEN originals
                    ELSE originals \cup {p.filename}
    /\ thumbnails' = IF outcome = "thumbnail_failed" THEN thumbnails
                     ELSE thumbnails \cup {p.filename}
    /\ IF outcome = "ok"
       THEN /\ inflight' = (inflight \ {p}) \cup
                 {[p EXCEPT !.pc = "create",
                            !.hash = Fingerprint(p.files[p.i].buffer, now)]}
            /\ UNCHANGED res
       ELSE UploadFails(p, "write failed")
    /\ UNCHANGED <<lastCred, images, now, nextId, nreq, fsq, openai, deleted, views, users>>

\* The document Image.create stores: schema defaults, timestamps: true.
NewImage(userId, filename, file, hash, time) ==
    [user |-> userId, filename |-> filename,
     originalUrl |-> OriginalUrl(filename), thumbnailUrl |-> ThumbnailUrl(filename),
     fileSize |-> SizeOf(file.buffer),
     title |-> Undef, description |-> Undef, tags |-> <<>>,
     bookmarked |-> FALSE, viewCount |-> 0, hash |-> hash, sharePassword |-> Undef,
     createdAt |-> time, updatedAt |-> time]

\* Whether the unique index on hash lets a document with this hash in.
HashIsFree(h) == ByHash(h) = {}

\* Image.create with a handler that removes the file's artifacts when the
\* creation fails.
UploadCreateRollback(p) ==
    /\ p.op = "upload" /\ p.pc = "create"
    /\ IF HashIsFree(p.hash)
       THEN /\ images' = (nextId :> NewImage(p.user, p.filename, p.files[p.i], p.hash, now))
                           @@ images
            /\ nextId' = nextId + 1
            /\ IF p.i < Len(p.files)
               THEN /\ inflight' = (inflight \ {p}) \cup
                         {[p EXCEPT !.pc = "meta", !.i = p.i + 1,
                                    !.created = Append(p.created, nextId),
                                    !.filename = <<>>, !.hash = <<>>]}
                    /\ UNCHANGED res
               ELSE /\ inflight' = inflight \ {p}
                    /\ res' = [rid |-> p.rid, route |-> "upload", user |-> p.user, status |-> 201,
                               files |-> p.files, reached |-> p.i,
                               body |-> Append(p.created, nextId), error |-> ""]
            /\ UNCHANGED <<originals, thumbnails>>
       ELSE /\ UploadFails(p, "E11000 duplicate key")
            /\ originals' = originals \ {p.filename}
            /\ thumbnails' = thumbnails \ {p.filename}
            /\ UNCHANGED <<images, nextId>>
    /\ UNCHANGED <<lastCred, now, nreq, fsq, openai, deleted, views, users>>

\* Lines 339-354: Image.create, then the next file or the 201 response.
UploadCreate(p) ==
    /\ p.op = "upload" /\ p.pc = "create"
    /\ IF HashIsFree(p.hash)
       THEN /\ images' = (nextId :> NewImage(p.user, p.filename, p.files[p.i], p.hash, now))
                           @@ images
            /\ nextId' = nextId + 1
            /\ IF p.i < Len(p.files)
               THEN /\ inflight' = (inflight \ {p}) \cup
                         {[p EXCEPT !.pc = "meta", !.i = p.i + 1,
                                    !.created = Append(p.created, nextId),
                                    !.filename = <<>>, !.hash = <<>>]}
                    /\ UNCHANGED res
               ELSE /\ inflight' = inflight \ {p}
                    /\ res' = [rid |-> p.rid, route |-> "upload", user |-> p.user, status |-> 201,
                               files |-> p.files, reached |-> p.i,
                               body |-> Append(p.created, nextId), error |-> ""]
       ELSE /\ UploadFails(p, "E11000 duplicate key")
            /\ UNCHANGED <<images, nextId>>
    /\ UNCHANGED <<lastCred, originals, thumbnails, now, nreq, fsq, openai, deleted, views, users>>

\* ---------------------------------------------------------- query engine

\* Characters in code-unit order, for comparisons of strings.
CodeOrder == <<" ", ",", "-", "0", "1", "2", "3", "A", "B", "_", "a", "b", "c",
               "e", "f", "l", "r", "s", "t", "u", "x">>
CharCode(c) == CHOOSE i \in 1..Len(CodeOrder) : CodeOrder[i] = c
Digits == {"0", "1", "2", "3"}
DigitValue(c) == CharCode(c) - CharCode("0")

\* Strings the code compares with, as character sequences.
TrueChars == <<"t", "r", "u", "e">>
FalseChars == <<"f", "a", "l", "s", "e">>

\* The value of the longest prefix of digits of s, after acc.
RECURSIVE DigitPrefix(_, _)
DigitPrefix(s, acc) ==
    IF s # <<>> /\ Head(s) \in Digits
    THEN DigitPrefix(Tail(s), 10 * acc + DigitValue(Head(s)))
    ELSE acc

\* parseInt(s, 10): leading whitespace, a sign, then decimal digits; NaN
\* when no digit follows.
RECURSIVE ParseInt(_)
ParseInt(s) ==
    IF s = <<>> THEN NaN
    ELSE IF Head(s) = " " THEN ParseInt(Tail(s))
    ELSE LET neg == Head(s) = "-"
             body == IF Head(s) \in {"-", "+"} THEN Tail(s) ELSE s
         IN  IF body = <<>> \/ Head(body) \notin Digits THEN NaN
             ELSE Num(IF neg THEN 0 - DigitPrefix(body, 0) ELSE DigitPrefix(body, 0))

\* parseInt(param, 10) || fallback, the parameter defaulting when absent.
ParsedOr(param, fallback) ==
    IF param = Undef THEN fallback
    ELSE LET n == ParseInt(param.v) IN IF Truthy(n) THEN n.v ELSE fallback

\* s.split(","): never empty; "" splits into [""].
RECURSIVE SplitComma(_, _)
SplitComma(s, cur) ==
    IF s = <<>> THEN <<cur>>
    ELSE IF Head(s) = "," THEN <<cur>> \o SplitComma(Tail(s), <<>>)
    ELSE SplitComma(Tail(s), Append(cur, Head(s)))

Split(s) == SplitComma(s, <<>>)

Range(f) == {f[i] : i \in DOMAIN f}

LowerCase(c) == CASE c = "A" -> "a" [] c = "B" -> "b" [] OTHER -> c
Lower(s) == [i \in DOMAIN s |-> LowerCase(s[i])]

\* { $regex: pattern, $options: "i" } for a pattern of plain letters: the
\* field holds the pattern somewhere, whatever the case.
ContainsCI(text, pattern) ==
    \E k \in 0..(Len(text) - Len(pattern)) :
        SubSeq(Lower(text), k + 1, k + Len(pattern)) = Lower(pattern)

RegexMatches(field, pattern) ==
    /\ field.t = "chars"
    /\ ContainsCI(field.v, pattern)

\* A tags filter that asks for all the listed tags ($all).
TagsMatchAll(docTags, param) ==
    LET tagList == Split(param.v) IN
    Len(tagList) > 0 => Range(tagList) \subseteq Range(docTags)

\* filter.tags = { $in: tagList }: the document holds one of the listed tags.
TagsMatch(docTags, param) ==
    LET tagList == Split(param.v) IN
    Len(tagList) > 0 => Range(docTags) \cap Range(tagList) # {}

\* bookmarked.split(",").map((bookmark) => bookmark === "true")
BookmarkedList(param) ==
    LET parts == Split(param.v) IN [i \in DOMAIN parts |-> parts[i] = TrueChars]

BookmarkedMatch(flag, param) ==
    LET bookmarkedList == BookmarkedList(param) IN
    Len(bookmarkedList) > 0 => flag \in Range(bookmarkedList)

\* The filter of getImages on one document.
Matches(doc, userId, q) ==
    /\ doc.user = userId
    /\ Truthy(q.title) => RegexMatches(doc.title, q.title.v)
    /\ Truthy(q.description) => RegexMatches(doc.description, q.description.v)
    /\ Truthy(q.tags) => TagsMatch(doc.tags, q.tags)
    /\ Truthy(q.bookmarked) => BookmarkedMatch(doc.bookmarked, q.bookmarked)

\* Image.find(filter) / countDocuments(filter) over the collection.
Filtered(coll, userId, q) == {i \in DOMAIN coll : Matches(coll[i], userId, q)}

allowedSortFields == {"title", "fileSize", "viewCount", "createdAt", "updatedAt", "bookmarked"}

\* A sort whose fallback fixes the direction too: createdAt descending.
SortSpecDescOnFallback(q) ==
    LET sortField == IF q.sortField = Undef THEN "createdAt" ELSE q.sortField.v
        sortOrder == IF q.sortOrder = Undef THEN "descend" ELSE q.sortOrder.v
    IN  IF sortField \in allowedSortFields
        THEN [field |-> sortField, dir |-> IF sortOrder = "ascend" THEN 1 ELSE -1]
        ELSE [field |-> "createdAt", dir |-> -1]

\* Lines 152-156, the field defaulting to createdAt and the order to descend:
\* the field falls back to createdAt, the direction is taken from sortOrder.
SortSpec(q) ==
    LET sortField == IF q.sortField = Undef THEN "createdAt" ELSE q.sortField.v
        sortOrder == IF q.sortOrder = Undef THEN "descend" ELSE q.sortOrder.v
        sortFieldSafe == IF sortField \in allowedSortFields THEN sortField ELSE "createdAt"
        sortDir == IF sortOrder = "ascend" THEN 1 ELSE -1
    IN  [field |-> sortFieldSafe, dir |-> sortDir]

\* Code-unit order of two strings.
RECURSIVE StringLess(_, _)
StringLess(a, b) ==
    IF b = <<>> THEN FALSE
    ELSE IF a = <<>> THEN TRUE
    ELSE IF Head(a) = Head(b) THEN StringLess(Tail(a), Tail(b))
    ELSE CharCode(Head(a)) < CharCode(Head(b))

\* MongoDB's order of two documents on a field: a missing value first, then
\* by value (false before true).
FieldLess(a, b, field) ==
    CASE field = "title" ->
            IF a.title.t # "chars" THEN b.title.t = "chars"
            ELSE b.title.t = "chars" /\ StringLess(a.title.v, b.title.v)
      [] field = "bookmarked" -> ~a.bookmarked /\ b.bookmarked
      [] field = "fileSize" -> a.fileSize < b.fileSize
      [] field = "viewCount" -> a.viewCount < b.viewCount
      [] field = "updatedAt" -> a.updatedAt < b.updatedAt
      [] OTHER -> a.createdAt < b.createdAt

\* All orders of the ids in S.
Orders(S) == {s \in [1..Cardinality(S) -> S] : Range(s) = S}

\* .sort({ [field]: dir }): documents that tie on the field come in an order
\* the database does not promise.
IsSorted(coll, s, sort) ==
    \A i, j \in DOMAIN s :
        i < j => IF sort.dir = 1 THEN ~FieldLess(coll[s[j]], coll[s[i]], sort.field)
                 ELSE ~FieldLess(coll[s[i]], coll[s[j]], sort.field)

SortedOrders(coll, S, sort) == {s \in Orders(S) : IsSorted(coll, s, sort)}

Min(a, b) == IF a < b THEN a ELSE b

\* .skip(skip).limit(limit): the driver sends a negative limit as its
\* absolute value; the server refuses a negative skip.
PageOf(s, skip, limit) ==
    LET lim == IF limit < 0 THEN 0 - limit ELSE limit
    IN  SubSeq(s, skip + 1, Min(Len(s), skip + lim))

\* The responses getImages can send for a query.
GetImagesResponses(coll, userId, q) ==
    LET pageNum == ParsedOr(q.page, 1)
        pageSizeNum == ParsedOr(q.pageSize, 10)
        found == Filtered(coll, userId, q)
        skip == (pageNum - 1) * pageSizeNum
    IN  IF skip < 0
        THEN {[status |-> 500, data |-> <<>>, total |-> 0, page |-> pageNum,
               pageSize |-> pageSizeNum]}
        ELSE {[status |-> 200, data |-> PageOf(s, skip, pageSizeNum),
               total |-> Cardinality(found), page |-> pageNum,
               pageSize |-> pageSizeNum] : s \in SortedOrders(coll, found, SortSpec(q))}

\* ---------------------------------------------------------- read handlers

\* A document as a response carries it.
Doc(coll, id) == [id |-> id, doc |-> coll[id]]

\* The query parameters of GET /images.
NoQuery ==
    [page |-> Undef, pageSize |-> Undef, sortField |-> Undef, sortOrder |-> Undef,
     title |-> Undef, description |-> Undef, tags |-> Undef, bookmarked |-> Undef]

\* getImages: the filter, the sort, the page, the response.
getImages(userId, q) ==
    /\ \E r \in GetImagesResponses(images, userId, q) :
         res' = [rid |-> nreq + 1, route |-> "list", user |-> userId, status |-> r.status,
                 query |-> q, data |-> [k \in DOMAIN r.data |-> Doc(images, r.data[k])],
                 total |-> r.total, page |-> r.page, pageSize |-> r.pageSize]
    /\ nreq' = nreq + 1
    /\ UNCHANGED <<images, originals, thumbnails, now, nextId, inflight, fsq, openai, deleted, views, users>>

RECURSIVE SumField(_, _, _)
SumField(coll, S, field) ==
    IF S = {} THEN 0
    ELSE LET i == CHOOSE j \in S : TRUE
         IN  (IF field = "fileSize" THEN coll[i].fileSize ELSE coll[i].viewCount)
               + SumField(coll, S \ {i}, field)

OwnedBy(userId) == {i \in DOMAIN images : images[i].user = userId}

\* getImageStats: counts and sums over the caller's documents.
getImageStats(userId) ==
    /\ res' = [rid |-> nreq + 1, route |-> "stats", user |-> userId, status |-> 200,
               totalImages |-> Cardinality(OwnedBy(userId)),
               totalSizeBytes |-> SumField(images, OwnedBy(userId), "fileSize"),
               totalViews |-> SumField(images, OwnedBy(userId), "viewCount"),
               bookmarked |-> Cardinality({i \in OwnedBy(userId) : images[i].bookmarked}),
               unbookmarked |-> Cardinality({i \in OwnedBy(userId) : ~images[i].bookmarked})]
    /\ nreq' = nreq + 1
    /\ UNCHANGED <<images, originals, thumbnails, now, nextId, inflight, fsq, openai, deleted, views, users>>

\* a.localeCompare(b) < 0, letters before their capitals.
LocaleOrder == <<" ", "_", "-", ",", "0", "1", "2", "3", "a", "A", "b", "B", "c",
                 "e", "f", "l", "r", "s", "t", "u", "x">>
LocaleCode(c) == CHOOSE i \in 1..Len(LocaleOrder) : LocaleOrder[i] = c

RECURSIVE LocaleLess(_, _)
LocaleLess(a, b) ==
    IF b = <<>> THEN FALSE
    ELSE IF a = <<>> THEN TRUE
    ELSE IF Head(a) = Head(b) THEN LocaleLess(Tail(a), Tail(b))
    ELSE LocaleCode(Head(a)) < LocaleCode(Head(b))

\* Image.distinct("tags", { user })
DistinctTags(userId) == UNION {Range(images[i].tags) : i \in OwnedBy(userId)}

\* getAllTags: the caller's distinct tags, sorted.
getAllTags(userId) ==
    /\ res' = [rid |-> nreq + 1, route |-> "tags", user |-> userId, status |-> 200,
               body |-> CHOOSE s \in Orders(DistinctTags(userId)) :
                          \A i, j \in DOMAIN s : i < j => LocaleLess(s[i], s[j])]
    /\ nreq' = nreq + 1
    /\ UNCHANGED <<images, originals, thumbnails, now, nextId, inflight, fsq, openai, deleted, views, users>>

\* What the external OpenAI call can do.
AIOutcomes == {"suggestions", "error"}

\* generateAIMetadata: 500 without a configured client, then the owner-scoped
\* lookup, then the file read and the external call.
generateAIMetadata(userId, id, outcome) ==
    /\ res' = [rid |-> nreq + 1, route |-> "ai-metadata", user |-> userId, id |-> id,
               status |-> IF ~openai THEN 500
                          ELSE IF FindOwned(id, userId) = {} THEN 404
                          ELSE IF Basename(images[id].thumbnailUrl) \notin originals THEN 500
                          ELSE IF outcome = "error" THEN 500
                          ELSE 200,
               found |-> IF openai THEN FindOwned(id, userId) ELSE {}]
    /\ nreq' = nreq + 1
    /\ UNCHANGED <<images, originals, thumbnails, now, nextId, inflight, fsq, openai, deleted, views, users>>

\* ------------------------------------------------------- update handlers

\* image.save(): only a changed document is written, and writing refreshes
\* updatedAt (timestamps: true).
Save(old, new) == IF new = old THEN old ELSE [new EXCEPT !.updatedAt = now]

\* The bodies of PATCH /:id/bookmark.
BookmarkBodies == {Undef, Bool(TRUE), Bool(FALSE), Str("true")}

\* A handler that negates the flag whatever the body holds.
NextBookmarkedAlwaysToggle(current, bookmarked) == ~current

\* Lines 464-468: a boolean in the body is stored, anything else negates.
NextBookmarked(current, bookmarked) ==
    IF bookmarked.t = "boolean" THEN bookmarked.v ELSE ~current

\* updateToggleBookmark
updateToggleBookmark(userId, id, bookmarked) ==
    /\ IF FindOwned(id, userId) = {}
       THEN /\ res' = [rid |-> nreq + 1, route |-> "bookmark", user |-> userId, id |-> id,
                       status |-> 404, arg |-> bookmarked, before |-> Undef, body |-> Undef]
            /\ UNCHANGED images
       ELSE LET image == Save(images[id],
                              [images[id] EXCEPT
                                 !.bookmarked = NextBookmarked(images[id].bookmarked, bookmarked)])
            IN  /\ images' = [images EXCEPT ![id] = image]
                /\ res' = [rid |-> nreq + 1, route |-> "bookmark", user |-> userId, id |-> id,
                           status |-> 200, arg |-> bookmarked, before |-> images[id],
                           body |-> image]
    /\ nreq' = nreq + 1
    /\ UNCHANGED <<originals, thumbnails, now, nextId, inflight, fsq, openai, deleted, views, users>>

\* tag.trim()
RECURSIVE TrimLeft(_)
TrimLeft(s) == IF s # <<>> /\ Head(s) = " " THEN TrimLeft(Tail(s)) ELSE s

RECURSIVE TrimRight(_)
TrimRight(s) ==
    IF s # <<>> /\ s[Len(s)] = " " THEN TrimRight(SubSeq(s, 1, Len(s) - 1)) ELSE s

Trim(s) == TrimRight(TrimLeft(s))

\* The tags of the body stored as they come, untrimmed, empty ones included.
CleanTagsAsGiven(tags) == IF tags.t = "array" THEN tags.v ELSE <<>>

\* Array.isArray(tags) ? tags.map((tag) => tag.trim()).filter(Boolean) : []
CleanTags(tags) ==
    IF tags.t = "array"
    THEN SelectSeq([i \in DOMAIN tags.v |-> Trim(tags.v[i])], LAMBDA tg : tg # <<>>)
    ELSE <<>>

Array(s) == [t |-> "array", v |-> s]

\* The bodies of PATCH /:id/details.
DetailBodies ==
    {[title |-> Undef, description |-> Undef, tags |-> Undef, sharePassword |-> Undef],
     [title |-> Chars(<<"A", "b">>), description |-> Chars(<<"c">>),
      tags |-> Array(<<<<" ", "a">>, <<" ">>, <<"b">>>>), sharePassword |-> Str("1")],
     [title |-> Chars(<<"A", "b">>), description |-> Undef,
      tags |-> Chars(<<"a">>), sharePassword |-> Undef]}

\* updateImageDetails: the four fields are overwritten from the body.
updateImageDetails(userId, id, body) ==
    /\ IF FindOwned(id, userId) = {}
       THEN /\ res' = [rid |-> nreq + 1, route |-> "details", user |-> userId, id |-> id,
                       status |-> 404, arg |-> body, before |-> Undef, body |-> Undef]
            /\ UNCHANGED images
       ELSE LET image == Save(images[id],
                              [images[id] EXCEPT !.title = body.title,
                                                 !.description = body.description,
                                                 !.tags = CleanTags(body.tags),
                                                 !.sharePassword = body.sharePassword])
            IN  /\ images' = [images EXCEPT ![id] = image]
                /\ res' = [rid |-> nreq + 1, route |-> "details", user |-> userId, id |-> id,
                           status |-> 200, arg |-> body, before |-> images[id],
                           body |-> image]
    /\ nreq' = nreq + 1
    /\ UNCHANGED <<originals, thumbnails, now, nextId, inflight, fsq, openai, deleted, views, users>>

\* ---------------------------------------------------------------- delete

\* deleteImage up to its await of deleteOne: the owner-scoped lookup, then
\* fs.access issued for both artifact paths (lines 485-507).
deleteImage(userId, id) ==
    /\ nreq' = nreq + 1
    /\ IF FindOwned(id, userId) = {}
       THEN /\ res' = [rid |-> nreq + 1, route |-> "delete", user |-> userId, id |-> id,
                       status |-> 404]
            /\ UNCHANGED <<inflight, fsq>>
       ELSE /\ Cardinality(inflight) < MaxInflight
            /\ fsq' = fsq \cup
                 {[rid |-> nreq + 1, call |-> "access", dir |-> "originals",
                   filename |-> Basename(images[id].originalUrl)],
                  [rid |-> nreq + 1, call |-> "access", dir |-> "thumbnails",
                   filename |-> Basename(images[id].thumbnailUrl)]}
            /\ inflight' = inflight \cup
                 {[rid |-> nreq + 1, op |-> "delete", user |-> userId, id |-> id,
                   filename |-> images[id].filename,
                   missing |-> \/ Basename(images[id].originalUrl) \notin originals
                               \/ Basename(images[id].thumbnailUrl) \notin thumbnails]}
            /\ UNCHANGED res
    /\ UNCHANGED <<images, originals, thumbnails, now, nextId, openai, deleted, views, users>>

\* Whether the database carries out deleteOne.
DbOutcomes == {"ok", "error"}

\* Lines 509-517: deleteOne resolves and 200 is sent, or it rejects and the
\* catch block sends 500.
DeleteRemove(p, outcome) ==
    /\ p.op = "delete"
    /\ inflight' = inflight \ {p}
    /\ IF outcome = "ok"
       THEN /\ images' = [i \in DOMAIN images \ {p.id} |-> images[i]]
            /\ res' = [rid |-> p.rid, route |-> "delete", user |-> p.user, id |-> p.id,
                       status |-> 200]
            /\ deleted' = deleted \cup {[id |-> p.id, filename |-> p.filename, rid |-> p.rid,
                                        missing |-> p.missing]}
       ELSE /\ res' = [rid |-> p.rid, route |-> "delete", user |-> p.user, id |-> p.id,
                       status |-> 500]
            /\ UNCHANGED <<images, deleted>>
    /\ UNCHANGED <<lastCred, originals, thumbnails, now, nextId, nreq, fsq, openai, views, users>>

FilesIn(dir) == IF dir = "originals" THEN originals ELSE thumbnails

\* The callback of fs.access without its call of unlink.
FsAccessOnly(e) ==
    /\ e.call = "access"
    /\ fsq' = fsq \ {e}
    /\ UNCHANGED <<lastCred, images, originals, thumbnails, now, nextId, nreq, inflight, openai, res,
                   deleted, views, users>>

\* The callback of fs.access: unlink is issued when the file is there.
FsAccess(e) ==
    /\ e.call = "access"
    /\ fsq' = IF e.filename \in FilesIn(e.dir)
              THEN (fsq \ {e}) \cup {[e EXCEPT !.call = "unlink"]}
              ELSE fsq \ {e}
    /\ UNCHANGED <<lastCred, images, originals, thumbnails, now, nextId, nreq, inflight, openai, res,
                   deleted, views, users>>

\* fs.unlink: the file goes; an error (the file is gone already) is dropped.
FsUnlink(e) ==
    /\ e.call = "unlink"
    /\ fsq' = fsq \ {e}
    /\ originals' = IF e.dir = "originals" THEN originals \ {e.filename} ELSE originals
    /\ thumbnails' = IF e.dir = "thumbnails" THEN thumbnails \ {e.filename} ELSE thumbnails
    /\ UNCHANGED <<lastCred, images, now, nextId, nreq, inflight, openai, res, deleted, views, users>>

\* --------------------------------------------------------- shared access

\* The hashes a request can name, and the passwords a body can carry.
Hashes == {Fingerprint(b, t) : b \in {x \in Buffers : Readable(x)}, t \in 1..MaxClock}
SuppliedPasswords == {Undef, Null, Str("1"), Str("p"), Num(1)}

\* image.sharePassword != sharePassword
PasswordMismatch(stored, supplied) == ~LooseEq(stored, supplied)

\* The lookups of a document so far.
ViewsOf(id) == IF id \in DOMAIN views THEN views[id] ELSE [ok |-> 0, overlap |-> FALSE]

\* getImageByHash up to its await of save (lines 237-253).
getImageByHash(hash, sharePassword) ==
    /\ nreq' = nreq + 1
    /\ IF ByHash(hash) = {}
       THEN /\ res' = [rid |-> nreq + 1, route |-> "hash", user |-> "none", hash |-> hash,
                       arg |-> sharePassword, status |-> 404, stored |-> Undef,
                       found |-> {}]
            /\ UNCHANGED <<inflight, views>>
       ELSE LET id == CHOOSE i \in ByHash(hash) : TRUE IN
            IF PasswordMismatch(images[id].sharePassword, sharePassword)
            THEN /\ res' = [rid |-> nreq + 1, route |-> "hash", user |-> "none",
                            hash |-> hash, arg |-> sharePassword, status |-> 404,
                            stored |-> images[id].sharePassword, found |-> {id}]
                 /\ UNCHANGED <<inflight, views>>
            ELSE /\ Cardinality(inflight) < MaxInflight
                 /\ inflight' = inflight \cup
                      {[rid |-> nreq + 1, op |-> "hash", id |-> id, hash |-> hash,
                        arg |-> sharePassword, stored |-> images[id].sharePassword,
                        viewCount |-> images[id].viewCount + 1]}
                 /\ views' = IF \E q \in inflight : q.op = "hash" /\ q.id = id
                              THEN (id :> [ViewsOf(id) EXCEPT !.overlap = TRUE]) @@ views
                              ELSE views
                 /\ UNCHANGED res
    /\ UNCHANGED <<images, originals, thumbnails, now, nextId, fsq, openai, deleted, users>>

\* A save that increments the stored count in the database ($inc).
HashSaveInc(p) ==
    /\ p.op = "hash"
    /\ inflight' = inflight \ {p}
    /\ IF p.id \in DOMAIN images
       THEN /\ images' = [images EXCEPT ![p.id].viewCount = @ + 1,
                                        ![p.id].updatedAt = now]
            /\ res' = [rid |-> p.rid, route |-> "hash", user |-> "none", hash |-> p.hash,
                       arg |-> p.arg, status |-> 200, stored |-> p.stored,
                       found |-> {p.id}]
            /\ views' = (p.id :> [ViewsOf(p.id) EXCEPT !.ok = @ + 1]) @@ views
       ELSE /\ res' = [rid |-> p.rid, route |-> "hash", user |-> "none", hash |-> p.hash,
                       arg |-> p.arg, status |-> 500, stored |-> p.stored,
                       found |-> {p.id}]
            /\ UNCHANGED <<images, views>>
    /\ UNCHANGED <<lastCred, originals, thumbnails, now, nextId, nreq, fsq, openai, deleted, users>>

\* Lines 254-262: save writes the incremented count read earlier; a document
\* deleted meanwhile makes save throw.
HashSave(p) ==
    /\ p.op = "hash"
    /\ inflight' = inflight \ {p}
    /\ IF p.id \in DOMAIN images
       THEN /\ images' = [images EXCEPT ![p.id].viewCount = p.viewCount,
                                        ![p.id].updatedAt = now]
            /\ res' = [rid |-> p.rid, route |-> "hash", user |-> "none", hash |-> p.hash,
                       arg |-> p.arg, status |-> 200, stored |-> p.stored,
                       found |-> {p.id}]
            /\ views' = (p.id :> [ViewsOf(p.id) EXCEPT !.ok = @ + 1]) @@ views
       ELSE /\ res' = [rid |-> p.rid, route |-> "hash", user |-> "none", hash |-> p.hash,
                       arg |-> p.arg, status |-> 500, stored |-> p.stored,
                       found |-> {p.id}]
            /\ UNCHANGED <<images, views>>
    /\ UNCHANGED <<lastCred, originals, thumbnails, now, nextId, nreq, fsq, openai, deleted, users>>

\* ---------------------------------------------------------------- router

ProtectedRoutes ==
    {"list", "stats", "tags", "upload", "ai-metadata", "details", "bookmark", "delete"}

\* A route registered after router.use(authMiddleware).
Protected(cookieToken, authHeader, route, Handled) ==
    IF authMiddleware(cookieToken, authHeader).status = 200 THEN Handled ELSE Reject401(route)

\* req.user.id, as the middleware sets it.
UserOf(cookieToken, authHeader) == authMiddleware(cookieToken, authHeader).user

\* What the router hands on, the credentials kept for the record.
Route(route, c, h, Handled) ==
    /\ CanAccept
    /\ Handled
    /\ lastCred' = [route |-> route, cookie |-> c, header |-> h]

RouteList(c, h, q) ==
    Route("list", c, h, Protected(c, h, "list", getImages(UserOf(c, h), q)))
RouteStats(c, h) ==
    Route("stats", c, h, Protected(c, h, "stats", getImageStats(UserOf(c, h))))
RouteTags(c, h) ==
    Route("tags", c, h, Protected(c, h, "tags", getAllTags(UserOf(c, h))))
RouteUpload(c, h, files) ==
    Route("upload", c, h, Protected(c, h, "upload", uploadMultipleImages(UserOf(c, h), files)))
RouteAIMetadata(c, h, id, outcome) ==
    Route("ai-metadata", c, h,
          Protected(c, h, "ai-metadata", generateAIMetadata(UserOf(c, h), id, outcome)))
RouteDetails(c, h, id, body) ==
    Route("details", c, h, Protected(c, h, "details", updateImageDetails(UserOf(c, h), id, body)))
RouteBookmark(c, h, id, bookmarked) ==
    Route("bookmark", c, h,
          Protected(c, h, "bookmark", updateToggleBookmark(UserOf(c, h), id, bookmarked)))
RouteDelete(c, h, id) ==
    Route("delete", c, h, Protected(c, h, "delete", deleteImage(UserOf(c, h), id)))
\* router.post("/hash/:hash", getImageByHash) comes before the middleware.
RouteHash(c, h, hash, sharePassword) ==
    Route("hash", c, h, getImageByHash(hash, sharePassword))

\* The steps of the handlers in flight and of the file system.
UploadSteps ==
    \/ \E p \in inflight : UploadMeta(p)
    \/ \E p \in inflight, w \in WriteOutcomes : UploadWrite(p, w)
    \/ \E p \in inflight : UploadCreate(p)

DeleteSteps ==
    \/ \E p \in inflight, o \in DbOutcomes : DeleteRemove(p, o)
    \/ \E e \in fsq : FsAccess(e)
    \/ \E e \in fsq : FsUnlink(e)

HashSteps == \E p \in inflight : HashSave(p)

Background ==
    \/ Tick
    \/ UploadSteps
    \/ DeleteSteps
    \/ HashSteps

\* A request to a protected route with credentials c, h, its parameters
\* from the sets of In.
Requests(c, h, In) ==
    \/ \E q \in In.queries : RouteList(c, h, q)
    \/ RouteStats(c, h)
    \/ RouteTags(c, h)
    \/ \E files \in In.batches : RouteUpload(c, h, files)
    \/ \E id \in Ids, o \in AIOutcomes : RouteAIMetadata(c, h, id, o)
    \/ \E id \in Ids, body \in In.details : RouteDetails(c, h, id, body)
    \/ \E id \in Ids, b \in In.bookmarks : RouteBookmark(c, h, id, b)
    \/ \E id \in Ids : RouteDelete(c, h, id)

\* A request to the public route.
PublicRequests(c, h, In) ==
    \E hash \in Hashes, pw \in In.passwords : RouteHash(c, h, hash, pw)

\* The request parameters of Spec: batches of one file at most.
AllInputs ==
    [queries |-> {NoQuery}, batches |-> {b \in Batches : Len(b) <= 1}, details |-> DetailBodies,
     bookmarks |-> BookmarkBodies, passwords |-> SuppliedPasswords]

\* The credentials of the requests of Spec: none, either user's, a bad one.
SomeHeaders == {Chars(<<"Bearer", "t_u1">>), Chars(<<"Bearer", "t_u2">>),
                Chars(<<"Bearer", "t_bad">>)}

Next ==
    \/ \E h \in SomeHeaders : Requests(Undef, h, AllInputs)
    \/ PublicRequests(Undef, Undef, AllInputs)
    \/ Background

Spec == Init /\ [][Next]_vars

\* ------------------------------------------------- uploads and deletes

\* Uploads of whole batches by both users, with the deletes that undo them.
NextUpload ==
    \/ \E h \in SomeHeaders, files \in Batches : RouteUpload(Undef, h, files)
    \/ \E h \in SomeHeaders, id \in Ids : RouteDelete(Undef, h, id)
    \/ Tick
    \/ UploadSteps
    \/ DeleteSteps

SpecUpload == Init /\ [][NextUpload]_vars

\* ------------------------------------------------------- every credential

\* One value for each request parameter.
FewInputs ==
    [queries |-> {NoQuery},
     batches |-> {<<>>, <<[originalname |-> <<"a", " ", " ", "b">>, buffer |-> "img1"]>>},
     details |-> {[title |-> Chars(<<"A", "b">>), description |-> Undef,
                   tags |-> Chars(<<"a">>), sharePassword |-> Undef]},
     bookmarks |-> {Undef},
     passwords |-> {Undef}]

\* Every route with every combination of cookie and Authorization header.
NextAuth ==
    \/ \E c \in Cookies, h \in AuthHeaders : Requests(c, h, FewInputs)
    \/ \E c \in Cookies, h \in AuthHeaders : PublicRequests(c, h, FewInputs)
    \/ Background

\* One more request to a server that holds nothing, or one image of u1.
InitAuth ==
    /\ images \in {[i \in S |-> NewImage("u1", StoredFilename(1, <<"a">>),
                                         [originalname |-> <<"a">>, buffer |-> "img1"],
                                         Fingerprint("img1", 1), 1)] : S \in SUBSET {1}}
    /\ originals = {images[i].filename : i \in DOMAIN images}
    /\ thumbnails = {images[i].filename : i \in DOMAIN images}
    /\ now = 1
    /\ nextId = 2
    /\ nreq = MaxRequests - 1
    /\ inflight = {}
    /\ fsq = {}
    /\ openai \in BOOLEAN
    /\ res = NoResponse
    /\ lastCred = [route |-> "none", cookie |-> Undef, header |-> Undef]
    /\ deleted = {}
    /\ views = <<>>
    /\ users = <<>>

SpecAuth == InitAuth /\ [][NextAuth]_vars

\* ----------------------------------------------------------- the queries

\* Documents the handlers can have produced: uploaded, some then given
\* details, bookmarked and looked up.
SampleDoc(userId, time, title, tags, bookmarked, viewCount, updated) ==
    [NewImage(userId, StoredFilename(time, <<"a">>),
              [originalname |-> <<"a">>, buffer |-> "img1"],
              Fingerprint("img1", time), time)
       EXCEPT !.title = title, !.tags = tags, !.bookmarked = bookmarked,
              !.viewCount = viewCount, !.updatedAt = updated]

SampleDocs ==
    <<SampleDoc("u1", 1, Chars(<<"A", "b">>), <<<<"a">>>>, TRUE, 2, 5),
      SampleDoc("u1", 2, Undef, <<<<"b">>, <<"c">>>>, FALSE, 0, 2),
      SampleDoc("u1", 3, Chars(<<"B">>), <<>>, TRUE, 1, 4),
      SampleDoc("u2", 4, Chars(<<"A", "b">>), <<<<"a">>>>, TRUE, 0, 4)>>

\* The collections of the query runs: the sample documents, some deleted.
SampleStores ==
    {[i \in S |-> SampleDocs[i]] : S \in SUBSET (1..Len(SampleDocs))}

InitQuery ==
    /\ images \in SampleStores
    /\ originals = {images[i].filename : i \in DOMAIN images}
    /\ thumbnails = {images[i].filename : i \in DOMAIN images}
    /\ now = 5
    /\ nextId = Len(SampleDocs) + 1
    /\ nreq = MaxRequests - 1
    /\ inflight = {}
    /\ fsq = {}
    /\ openai = TRUE
    /\ res = NoResponse
    /\ lastCred = [route |-> "none", cookie |-> Undef, header |-> Undef]
    /\ deleted = {}
    /\ views = <<>>
    /\ users = <<>>

PageParams == {Undef, Chars(<<"0">>), Chars(<<"-", "1">>), Chars(<<"x">>), Chars(<<"1">>),
               Chars(<<"2">>), Chars(<<"3">>), Chars(<<" ", "2", "x">>)}
PageSizeParams == {Undef, Chars(<<"0">>), Chars(<<"-", "1">>), Chars(<<"1">>), Chars(<<"2">>)}
SortFieldParams == {Undef, Str("hash")} \cup {Str(f) : f \in allowedSortFields}
SortOrderParams == {Undef, Str("ascend"), Str("descend"), Str("desc")}
TagsParams == {Undef, Chars(<<>>), Chars(<<"a">>), Chars(<<"a", ",", "b">>),
               Chars(<<"x">>), Chars(<<",">>), Chars(<<"c", ",", "x">>)}
BookmarkedParams == {Undef, Chars(<<>>), Chars(TrueChars), Chars(FalseChars),
                     Chars(TrueChars \o <<",">> \o FalseChars), Chars(<<"1">>)}
TitleParams == {Undef, Chars(<<"b">>)}

\* Queries that page and sort, and queries that filter.
PagingQueries ==
    {[NoQuery EXCEPT !.page = p, !.pageSize = ps, !.sortField = sf, !.sortOrder = so] :
        p \in PageParams, ps \in PageSizeParams, sf \in SortFieldParams,
        so \in SortOrderParams}
FilterQueries ==
    {[NoQuery EXCEPT !.tags = tg, !.bookmarked = bm, !.title = ti, !.pageSize = ps] :
        tg \in TagsParams, bm \in BookmarkedParams, ti \in TitleParams,
        ps \in {Undef, Chars(<<"1">>)}}

NextQuery ==
    \E h \in SomeHeaders, q \in PagingQueries \cup FilterQueries : RouteList(Undef, h, q)

SpecQuery == InitQuery /\ [][NextQuery]_vars

\* -------------------------------------------------------------- deletion

\* Upload, delete, and the operations that can follow a delete.
NextDelete ==
    \/ \E h \in SomeHeaders : Requests(Undef, h, FewInputs)
    \/ PublicRequests(Undef, Undef, FewInputs)
    \/ Background

\* Node runs every callback it has queued, so no step of a handler in flight
\* or of the file system waits forever.
Fairness == WF_vars(\E e \in fsq : FsAccess(e) \/ FsUnlink(e))

SpecDelete == Init /\ [][NextDelete]_vars /\ Fairness

\* ---------------------------------------------------------- registration

\* String.prototype.toLowerCase and trim, on the characters of the model.
toLowerCase(s) == [i \in 1..Len(s) |-> IF s[i] = "A" THEN "a" ELSE s[i]]

RECURSIVE trimStart(_)
trimStart(s) == IF s # <<>> /\ Head(s) = " " THEN trimStart(Tail(s)) ELSE s

RECURSIVE trimEnd(_)
trimEnd(s) ==
    IF s # <<>> /\ s[Len(s)] = " " THEN trimEnd(SubSeq(s, 1, Len(s) - 1)) ELSE s

trim(s) == trimEnd(trimStart(s))

\* The setters of the email path (lowercase: true, trim: true); Mongoose
\* applies them to the value of a new document and to the value in a filter.
EmailSetters(email) == trim(toLowerCase(email))

\* passwordPattern.test(password): a lowercase letter, an uppercase letter,
\* a digit, another character, eight characters or more.
passwordPattern(password) ==
    /\ \E i \in DOMAIN password : password[i] \in {"a", "b"}
    /\ \E i \in DOMAIN password : password[i] \in {"A", "B"}
    /\ \E i \in DOMAIN password : password[i] \in {"0", "1"}
    /\ \E i \in DOMAIN password : password[i] \notin {"a", "b", "A", "B", "0", "1"}
    /\ Len(password) >= 8

\* The bodies of the registration requests.
RegisterEmails ==
    {Undef, Chars(<<>>), Chars(<<"a">>), Chars(<<"A">>), Chars(<<" ", "a">>), Chars(<<"b">>),
     Chars(<<" ">>)}
RegisterPasswords ==
    {Undef, Chars(<<"a", "A", "1", "!">>), Chars(<<"a", "a", "a", "a", "1", "1", "1", "1">>),
     Chars(<<"a", "A", "1", "!", "a", "a", "a", "a">>)}
RegisterNames == {Undef, Str("n")}
RegisterBodies ==
    [email : RegisterEmails, password : RegisterPasswords, name : RegisterNames]

\* Users matching { email }.
ByEmail(email) == {i \in DOMAIN users : users[i].email = email}

RegisterResponse(rid, email, status, id, error) ==
    [rid |-> rid, route |-> "register", user |-> "none", email |-> email, status |-> status,
     id |-> id, error |-> error]

\* register up to its first await (lines 33-55).
register(body) ==
    /\ CanAccept
    /\ nreq' = nreq + 1
    /\ IF ~Truthy(body.email) \/ ~Truthy(body.password) \/ ~Truthy(body.name)
       THEN /\ res' = RegisterResponse(nreq + 1, body.email, 400, 0, "required")
            /\ UNCHANGED inflight
       ELSE IF ~passwordPattern(body.password.v)
       THEN /\ res' = RegisterResponse(nreq + 1, body.email, 400, 0, "password")
            /\ UNCHANGED inflight
       ELSE /\ Cardinality(inflight) < MaxInflight
            /\ inflight' = inflight \cup
                 {[rid |-> nreq + 1, op |-> "register", pc |-> "find", email |-> body.email.v,
                   password |-> body.password.v, name |-> body.name.v,
                   passwordHash |-> <<>>]}
            /\ UNCHANGED res
    /\ UNCHANGED <<lastCred, images, originals, thumbnails, now, nextId, fsq, openai, deleted,
                   views, users>>

\* Lines 55-59: User.findOne({ email }) and the 409.
RegisterFind(p) ==
    /\ p.op = "register" /\ p.pc = "find"
    /\ IF ByEmail(EmailSetters(p.email)) # {}
       THEN /\ inflight' = inflight \ {p}
            /\ res' = RegisterResponse(p.rid, Chars(p.email), 409, 0, "in use")
       ELSE /\ inflight' = (inflight \ {p}) \cup {[p EXCEPT !.pc = "hash"]}
            /\ UNCHANGED res
    /\ UNCHANGED <<lastCred, images, originals, thumbnails, now, nextId, nreq, fsq, openai,
                   deleted, views, users>>

\* Line 61: bcrypt.hash.
RegisterHash(p) ==
    /\ p.op = "register" /\ p.pc = "hash"
    /\ inflight' = (inflight \ {p}) \cup
         {[p EXCEPT !.pc = "create", !.passwordHash = <<"bcrypt">> \o p.password]}
    /\ UNCHANGED <<lastCred, images, originals, thumbnails, now, nextId, nreq, fsq, openai, res,
                   deleted, views, users>>

\* Lines 62-78: User.create, then the 201, or the 500 of the catch when the
\* document fails validation (email is required) or the unique index.
RegisterCreate(p) ==
    /\ p.op = "register" /\ p.pc = "create"
    /\ inflight' = inflight \ {p}
    /\ LET email == EmailSetters(p.email) IN
       IF email = <<>>
       THEN /\ res' = RegisterResponse(p.rid, Chars(p.email), 500, 0, "validation")
            /\ UNCHANGED users
       ELSE IF ByEmail(email) # {}
       THEN /\ res' = RegisterResponse(p.rid, Chars(p.email), 500, 0, "E11000 duplicate key")
            /\ UNCHANGED users
       ELSE /\ users' = Append(users, [email |-> email, name |-> p.name,
                                       passwordHash |-> p.passwordHash,
                                       createdAt |-> now, updatedAt |-> now])
            /\ res' = RegisterResponse(p.rid, Chars(p.email), 201, Len(users) + 1, "")
    /\ UNCHANGED <<lastCred, images, originals, thumbnails, now, nextId, nreq, fsq, openai,
                   deleted, views>>

RegisterSteps ==
    \/ \E p \in inflight : RegisterFind(p)
    \/ \E p \in inflight : RegisterHash(p)
    \/ \E p \in inflight : RegisterCreate(p)

\* Registration requests alone.
NextRegister ==
    \/ \E body \in RegisterBodies : register(body)
    \/ RegisterSteps

SpecRegister == Init /\ [][NextRegister]_vars

\* ================================================================ properties

\* ------------------------------------------------------------------- C1

\* The request carries no token: no cookie, and no Bearer token in the header.
C1_NoToken(cred) ==
    /\ cred.cookie = Undef
    /\ cred.header \in {Undef, Chars(<<"Bearer", "">>), Chars(<<"Basic", "t_u1">>)}

\* Every token the request carries fails verification.
C1_BadToken(cred) ==
    /\ cred.cookie \in {Undef, Str("t_bad")}
    /\ cred.header \in {Undef, Chars(<<"Bearer", "t_bad">>), Chars(<<"Bearer", "">>),
                        Chars(<<"Basic", "t_u1">>)}
    /\ ~C1_NoToken(cred)

\* A request to a protected route without a valid credential is answered 401
\* and starts nothing, reads nothing and changes nothing.
C1_RejectStep ==
    (/\ nreq' = nreq + 1
     /\ lastCred'.route \in ProtectedRoutes
     /\ C1_NoToken(lastCred') \/ C1_BadToken(lastCred'))
    => /\ res' = [rid |-> nreq', route |-> lastCred'.route, user |-> "none", status |-> 401]
       /\ UNCHANGED <<images, originals, thumbnails, nextId, inflight, fsq, deleted>>

\* A request to POST /images/hash/:hash is handled whatever it carries: it is
\* answered by the handler (404) or the handler is in flight, never 401.
C1_HashStep ==
    (nreq' = nreq + 1 /\ lastCred'.route = "hash")
    => \/ res'.rid = nreq' /\ res'.route = "hash" /\ res'.status = 404
       \/ \E p \in inflight' : p.rid = nreq' /\ p.op = "hash"

\* C1: every image route except POST /images/hash/:hash requires a valid
\* credential: a request to list, stats, tags, upload-multiple, ai-metadata,
\* details, bookmark or delete that carries no token, or a token that fails
\* verification, is answered 401 and its handler never runs, so that no
\* record or artifact is read or changed; the hash route is handled without
\* any credential.
C1_Theorem == [][C1_RejectStep /\ C1_HashStep]_vars

\* A delete of an existing image with a token that fails verification was
\* answered 401.
C1_Witness ==
    /\ res.status = 401 /\ res.route = "delete"
    /\ lastCred.route = "delete" /\ C1_BadToken(lastCred)
    /\ DOMAIN images # {}

\* ------------------------------------------------------------------- C2

\* The user a request's credentials stand for.
C2_Caller(cred) ==
    CASE cred.cookie = Undef /\ cred.header = Chars(<<"Bearer", "t_u1">>) -> "u1"
      [] cred.cookie = Undef /\ cred.header = Chars(<<"Bearer", "t_u2">>) -> "u2"
      [] OTHER -> "none"

C2_ByIdRoutes == {"ai-metadata", "details", "bookmark", "delete"}

\* The step accepts a request of a user to one of the by-id routes that
\* names record id, which another user owns.
C2_Foreign(id) ==
    /\ nreq' = nreq + 1
    /\ lastCred'.route \in C2_ByIdRoutes
    /\ C2_Caller(lastCred') \in Users
    /\ images[id].user # C2_Caller(lastCred')
    /\ \/ res'.rid = nreq' /\ res'.id = id
       \/ \E p \in inflight' \ inflight : p.op = "delete" /\ p.id = id

\* The step leaves every record and artifact as it is and starts nothing.
C2_Untouched == UNCHANGED <<images, originals, thumbnails, inflight, fsq>>

\* A record changes or goes only by its owner's details, bookmark or delete
\* request that names it (or, for its view count, by a public lookup).
C2_OwnChanges ==
    \A id \in DOMAIN images :
        (id \notin DOMAIN images' \/ images'[id] # images[id])
        => \/ res'.route = "hash" /\ res'.status = 200 /\ res'.found = {id}
           \/ /\ res'.route \in {"details", "bookmark", "delete"}
              /\ res'.status = 200
              /\ res'.id = id
              /\ res'.user = images[id].user

\* A list or ai-metadata response carries records of the caller only.
C2_OwnReads ==
    (nreq' = nreq + 1 /\ res'.rid = nreq' /\ res'.status = 200)
    => /\ res'.route = "list" =>
            \A k \in DOMAIN res'.data :
                /\ res'.data[k].doc.user = C2_Caller(lastCred')
                /\ res'.data[k].doc = images[res'.data[k].id]
       /\ res'.route = "ai-metadata" => images[res'.id].user = C2_Caller(lastCred')

\* The claim as stated: a request naming another user's record is answered
\* 404 and leaves the record and its artifacts unchanged.
C2_Original ==
    [][\A id \in DOMAIN images :
          C2_Foreign(id) => res'.rid = nreq' /\ res'.status = 404 /\ C2_Untouched]_vars

\* C2: every authenticated image operation is scoped to the caller: a list,
\* details, bookmark, ai-metadata or delete request of U returns or modifies
\* only records that U owns; a request of U naming a record of V leaves V's
\* record and its artifacts unchanged and is answered 404, except that
\* ai-metadata answers 500 when the AI integration is not configured.
C2_Theorem ==
    [][/\ C2_OwnChanges
       /\ C2_OwnReads
       /\ \A id \in DOMAIN images :
            C2_Foreign(id) =>
                /\ res'.rid = nreq'
                /\ res'.status = IF lastCred'.route = "ai-metadata" /\ ~openai
                                 THEN 500 ELSE 404
                /\ C2_Untouched]_vars

\* A details request naming a record that another user owns was answered 404.
C2_Witness ==
    /\ res.route = "details" /\ res.status = 404 /\ res.user \in Users
    /\ res.id \in DOMAIN images
    /\ images[res.id].user # res.user

\* ------------------------------------------------------------------- C3

\* C3: upload batch failures are per-item: when a file of a batch fails (an
\* unreadable image, an artifact write error, a record creation error) the
\* remaining files are still processed and the response is the list of the
\* records created: every answered batch of several files was gone through
\* to its last file and answered 201.
C3_PerItem ==
    (res.route = "upload" /\ res.status \in {201, 500} /\ Len(res.files) >= 2)
    => res.status = 201 /\ res.reached = Len(res.files)

\* ------------------------------------------------------------------- C4

\* The supplied password equals the stored one: the same value, or none on
\* both sides (absent or null).
C4_Equal(stored, supplied) ==
    \/ stored = supplied
    \/ stored \in {Undef, Null} /\ supplied \in {Undef, Null}

\* C4: a public hash lookup whose supplied sharePassword does not equal the
\* stored one is answered 404 (never 401) and leaves viewCount unchanged, and
\* so is a lookup of a hash no record has; viewCount is incremented only by
\* lookups whose password matches.
C4_WrongPassword ==
    [][/\ (res' # res /\ res'.route = "hash" /\ res'.found = {})
            => res'.status = 404 /\ UNCHANGED images
       /\ (res' # res /\ res'.route = "hash" /\ ~C4_Equal(res'.stored, res'.arg))
            => res'.status = 404 /\ UNCHANGED images
       /\ \A id \in DOMAIN images \cap DOMAIN images' :
            images'[id].viewCount # images[id].viewCount
            => /\ res'.route = "hash" /\ res'.found = {id}
               /\ C4_Equal(res'.stored, res'.arg)
               /\ images'[id].viewCount = images[id].viewCount + 1]_vars

\* ------------------------------------------------------------------- C5

\* The ids of the records whose delete was answered 200.
C5_DeletedIds == {d.id : d \in deleted}

\* The record of an answered delete is in the collection no more.
C5_Gone == \A d \in deleted : d.id \notin DOMAIN images

\* The step accepts a by-id request of a user that names a record whose delete
\* was answered 200 before.
C5_Later(id) ==
    /\ nreq' = nreq + 1
    /\ lastCred'.route \in C2_ByIdRoutes
    /\ C2_Caller(lastCred') \in Users
    /\ id \in C5_DeletedIds
    /\ \/ res'.rid = nreq' /\ res'.id = id
       \/ \E p \in inflight' \ inflight : p.op = "delete" /\ p.id = id

\* No later list, stats, tags or public lookup sees a deleted record.
C5_NotSeen ==
    /\ (nreq' = nreq + 1 /\ res'.rid = nreq' /\ res'.status = 200) =>
         /\ res'.route = "list" =>
              \A k \in DOMAIN res'.data : res'.data[k].id \notin C5_DeletedIds
         /\ res'.route = "stats" =>
              res'.totalImages = Cardinality({i \in DOMAIN images \ C5_DeletedIds :
                                               images[i].user = res'.user})
         /\ res'.route = "tags" =>
              \A k \in DOMAIN res'.body :
                  \E i \in DOMAIN images \ C5_DeletedIds :
                      images[i].user = res'.user /\ res'.body[k] \in Range(images[i].tags)
    /\ \A p \in inflight' \ inflight : p.op = "hash" => p.id \notin C5_DeletedIds
    /\ (nreq' = nreq + 1 /\ lastCred'.route = "hash" /\ res'.rid = nreq') =>
         res'.status = 404 /\ res'.found \cap C5_DeletedIds = {}

\* A delete that finds the record asks for the removal of both artifacts.
C5_Issued ==
    \A p \in inflight' \ inflight :
        p.op = "delete" =>
            \A dir \in {"originals", "thumbnails"} :
                [rid |-> p.rid, call |-> "access", dir |-> dir,
                 filename |-> images[p.id].filename] \in fsq'

\* A removal that is over leaves no file, and a file that was missing ends
\* the removal without touching the response or the handler.
C5_Removed ==
    \A e \in fsq :
        (e \notin fsq' /\ [e EXCEPT !.call = "unlink"] \notin fsq')
        => /\ e.filename \notin (IF e.dir = "originals" THEN originals' ELSE thumbnails')
           /\ UNCHANGED <<res, inflight, images>>

\* The removals a delete asked for all come to their end.
C5_Eventually ==
    \A rid \in 1..MaxRequests :
        (\E d \in deleted : d.rid = rid) ~> (\A e \in fsq : e.rid # rid)

\* The claim as stated: every later by-id operation on the record is
\* answered not-found, 404.
C5_Original ==
    [][\A id \in Ids :
          C5_Later(id) => res'.rid = nreq' /\ res'.status = 404]_vars

\* C5: after a delete of a record was answered 200 the record is not-found
\* for every later operation: details, bookmark, delete and ai-metadata by
\* id answer 404 (ai-metadata 500 when the AI integration is not
\* configured), a public lookup by hash does not find it, list, stats and
\* tags do not show it; the removals of both artifact files come to their
\* end and leave no file; a missing artifact file does not make the delete
\* fail.
C5_Theorem ==
    /\ []C5_Gone
    /\ [][/\ \A id \in Ids :
              C5_Later(id) =>
                  /\ res'.rid = nreq'
                  /\ res'.status = IF lastCred'.route = "ai-metadata" /\ ~openai
                                   THEN 500 ELSE 404
                  /\ UNCHANGED <<images, originals, thumbnails, inflight, fsq>>
          /\ C5_NotSeen
          /\ C5_Issued
          /\ C5_Removed]_vars
    /\ C5_Eventually

\* A delete was answered 200 though an artifact of the record was missing
\* when it started, its removals are over and the record's files are gone.
C5_Witness ==
    \E d \in deleted :
        /\ d.missing
        /\ res.route = "delete" /\ res.status = 200 /\ res.rid = d.rid
        /\ \A e \in fsq : e.rid # d.rid
        /\ d.filename \notin originals \cup thumbnails

\* ------------------------------------------------------------------- C6

\* C6: the fingerprint of every created record is unique across the store,
\* and uploading the same bytes twice, at any two times the clock can
\* produce, yields two records with different fingerprints: no two records
\* share a hash, and no upload of a file is refused for its fingerprint.
C6_Unique ==
    /\ \A i, j \in DOMAIN images : i # j => images[i].hash # images[j].hash
    /\ (res.route = "upload" /\ res.status \in {201, 500})
         => res.error # "E11000 duplicate key"

\* ------------------------------------------------------------------- C7

\* The step answers 200 to a bookmark request for record id.
C7_Bookmarks(id) ==
    /\ nreq' = nreq + 1
    /\ res'.rid = nreq' /\ res'.route = "bookmark" /\ res'.status = 200
    /\ res'.id = id

\* The flag the claim expects after the request.
C7_Expected(current, arg) == IF arg.t = "boolean" THEN arg.v ELSE ~current

\* The response before was a 200 to a bookmark request for the same record
\* and nothing has touched the record since.
C7_Repeats(id) ==
    /\ res.route = "bookmark" /\ res.status = 200 /\ res.id = id
    /\ images[id] = res.body

\* The claim as stated: the flag is set and no other field changes.
C7_Original ==
    [][\A id \in DOMAIN images :
          C7_Bookmarks(id) =>
              images' = [images EXCEPT ![id].bookmarked =
                                           C7_Expected(images[id].bookmarked, res'.arg)]]_vars

\* C7: PATCH /:id/bookmark on a record of the caller negates the stored flag
\* when the body holds no boolean bookmarked, so that a second such call
\* restores the value, and sets the flag to a boolean in the body, so that
\* the same call again changes nothing; no other field of the record
\* changes, except updatedAt, which takes the time of the request when the
\* flag changes; no other record changes.
C7_Theorem ==
    [][\A id \in DOMAIN images :
          C7_Bookmarks(id) =>
              /\ res'.user = images[id].user
              /\ images'[id].bookmarked = C7_Expected(images[id].bookmarked, res'.arg)
              /\ images' = [images EXCEPT
                               ![id].bookmarked = images'[id].bookmarked,
                               ![id].updatedAt = images'[id].updatedAt]
              /\ images'[id].updatedAt =
                    IF images'[id].bookmarked = images[id].bookmarked
                    THEN images[id].updatedAt ELSE now
              /\ res'.body = images'[id]
              /\ (C7_Repeats(id) /\ res.arg.t # "boolean" /\ res'.arg.t # "boolean")
                    => images'[id].bookmarked = res.before.bookmarked
              /\ (C7_Repeats(id) /\ res.arg.t = "boolean" /\ res'.arg = res.arg)
                    => images' = images]_vars

\* A second toggle without a boolean in the body has restored the flag of a
\* record whose updatedAt the first one had moved.
C7_Witness ==
    /\ res.route = "bookmark" /\ res.status = 200 /\ res.arg = Undef
    /\ res.before.bookmarked /\ ~res.body.bookmarked
    /\ res.before.updatedAt # res.before.createdAt
    /\ res.id \in DOMAIN images /\ images[res.id] = res.body

\* ------------------------------------------------------------------- C8

C8_AllowList == {"title", "fileSize", "viewCount", "createdAt", "updatedAt", "bookmarked"}

\* The field a query is expected to sort by.
C8_Field(q) ==
    IF q.sortField # Undef /\ q.sortField.v \in C8_AllowList THEN q.sortField.v
    ELSE "createdAt"

\* Document a may come before document b when sorting by field, ascending
\* or descending.
C8_MayPrecede(a, b, field, ascending) ==
    IF ascending THEN ~FieldLess(b, a, field) ELSE ~FieldLess(a, b, field)

\* The response is a page in the order of field: its records are in that
\* order and, on a first page without filters, none of the caller's records
\* left out had to come before one on the page.
C8_Sorted(field, ascending) ==
    /\ \A i, j \in DOMAIN res.data :
         i < j => C8_MayPrecede(res.data[i].doc, res.data[j].doc, field, ascending)
    /\ (/\ res.query.page = Undef /\ res.query.tags = Undef
        /\ res.query.bookmarked = Undef /\ res.query.title = Undef)
       => \A k \in DOMAIN res.data, i \in DOMAIN images :
              (images[i].user = res.user /\ \A m \in DOMAIN res.data : res.data[m].id # i)
              => C8_MayPrecede(res.data[k].doc, images[i], field, ascending)

\* The claim as stated: a sort field outside the allow-list gives createdAt
\* descending, whatever the sort order asked for.
C8_Original ==
    (/\ res.route = "list" /\ res.status = 200
     /\ res.query.sortField # Undef /\ res.query.sortField.v \notin C8_AllowList)
    => C8_Sorted("createdAt", FALSE)

\* C8: a sortField outside the allow-list {title, fileSize, viewCount,
\* createdAt, updatedAt, bookmarked} falls back to sorting by createdAt, in
\* the direction the request asks for; a sortField inside the allow-list is
\* used; in both cases the direction is ascending iff sortOrder is "ascend",
\* descending otherwise.
C8_Theorem ==
    (res.route = "list" /\ res.status = 200)
    => C8_Sorted(C8_Field(res.query), res.query.sortOrder = Str("ascend"))

\* A query with a sort field outside the allow-list and sortOrder "ascend"
\* was answered with records in ascending order of createdAt.
C8_Witness ==
    /\ res.route = "list" /\ res.status = 200
    /\ res.query.sortField = Str("hash") /\ res.query.sortOrder = Str("ascend")
    /\ Len(res.data) >= 2
    /\ res.data[1].doc.createdAt < res.data[2].doc.createdAt

\* ------------------------------------------------------------------- C9

\* C9: for every page and pageSize value (absent, non-numeric, zero, negative
\* or positive) GET /images answers 200 with at most pageSize records of the
\* caller (the bound is looked at for a page size that is no negative
\* number), and total is the number of the caller's records that match the
\* filter, whatever the page.
C9_Paged ==
    (res.route = "list" /\ res.user \in Users)
    => /\ res.status = 200
       /\ res.pageSize >= 0 => Len(res.data) <= res.pageSize
       /\ \A k \in DOMAIN res.data : res.data[k].doc.user = res.user
       /\ (res.query.tags = Undef /\ res.query.bookmarked = Undef /\ res.query.title = Undef)
            => res.total = Cardinality({i \in DOMAIN images : images[i].user = res.user})

\* ------------------------------------------------------------------ C10

\* The tags a tags parameter lists.
C10_TagList(param) ==
    CASE param = Chars(<<"a">>) -> {<<"a">>}
      [] param = Chars(<<"a", ",", "b">>) -> {<<"a">>, <<"b">>}
      [] param = Chars(<<"x">>) -> {<<"x">>}
      [] param = Chars(<<",">>) -> {<<>>}
      [] param = Chars(<<"c", ",", "x">>) -> {<<"c">>, <<"x">>}

\* The flags a bookmarked parameter lists: "true" is true, any other entry
\* is false.
C10_Flags(param) ==
    CASE param = Chars(<<"t", "r", "u", "e">>) -> {TRUE}
      [] param = Chars(<<"f", "a", "l", "s", "e">>) -> {FALSE}
      [] param = Chars(<<"t", "r", "u", "e", ",", "f", "a", "l", "s", "e">>) -> {TRUE, FALSE}
      [] param = Chars(<<"1">>) -> {FALSE}

\* An absent or empty parameter.
C10_None(param) == param \in {Undef, Chars(<<>>)}

\* The caller's records a query with these tags and bookmarked parameters
\* is expected to return.
C10_Expected(userId, q) ==
    {i \in DOMAIN images :
        /\ images[i].user = userId
        /\ ~C10_None(q.tags) =>
              \E k \in DOMAIN images[i].tags : images[i].tags[k] \in C10_TagList(q.tags)
        /\ ~C10_None(q.bookmarked) => images[i].bookmarked \in C10_Flags(q.bookmarked)}

\* C10: GET /images with tags and bookmarked lists returns exactly the
\* caller's records that hold at least one of the listed tags and whose flag
\* is in the listed set ("true" meaning true, any other entry false); an
\* absent or empty parameter restricts nothing.  total counts those records,
\* every record of the page is one of them, and a page that is large enough
\* holds them all.
C10_Theorem ==
    (/\ res.route = "list" /\ res.status = 200
     /\ res.query.title = Undef /\ res.query.description = Undef)
    => /\ res.total = Cardinality(C10_Expected(res.user, res.query))
       /\ \A k \in DOMAIN res.data :
            /\ res.data[k].id \in C10_Expected(res.user, res.query)
            /\ res.data[k].doc = images[res.data[k].id]
       /\ (res.query.page = Undef /\ res.query.pageSize = Undef)
            => {res.data[k].id : k \in DOMAIN res.data} = C10_Expected(res.user, res.query)

\* tags=a,b with bookmarked=true returned one of the caller's three records:
\* the bookmarked one with tag a, not the one with tag b that is not
\* bookmarked, nor the bookmarked one without tags.
C10_Witness ==
    /\ res.route = "list" /\ res.status = 200
    /\ res.query.tags = Chars(<<"a", ",", "b">>)
    /\ res.query.bookmarked = Chars(<<"t", "r", "u", "e">>)
    /\ res.query.title = Undef /\ res.query.pageSize = Undef
    /\ Cardinality({i \in DOMAIN images : images[i].user = res.user}) = 3
    /\ Len(res.data) = 1 /\ res.total = 1
    /\ res.data[1].doc.bookmarked
    /\ \E k \in DOMAIN res.data[1].doc.tags : res.data[1].doc.tags[k] = <<"a">>

\* ------------------------------------------------------------------ C11

\* The tags the record is expected to hold after a body's tags: trimmed,
\* the empty ones left out; none when the body's tags are no array.
C11_Tags(tags) ==
    CASE tags = Array(<<<<" ", "a">>, <<" ">>, <<"b">>>>) -> <<<<"a">>, <<"b">>>>
      [] OTHER -> <<>>

\* C11: PATCH /:id/details overwrites exactly the four mutable fields: after
\* a 200, title, description and sharePassword are the body's values (absent
\* when the body has none), tags are the body's tags trimmed and without
\* empty entries (none when tags is absent or no array), and owner, hash,
\* filename, artifact locations, file size, bookmarked, viewCount and
\* createdAt are as before; no other record changes.
C11_Theorem ==
    [][\A id \in DOMAIN images :
          (/\ nreq' = nreq + 1
           /\ res'.rid = nreq' /\ res'.route = "details" /\ res'.status = 200
           /\ res'.id = id)
          => /\ res'.user = images[id].user
             /\ images'[id].title = res'.arg.title
             /\ images'[id].description = res'.arg.description
             /\ images'[id].sharePassword = res'.arg.sharePassword
             /\ images'[id].tags = C11_Tags(res'.arg.tags)
             /\ images' = [images EXCEPT
                              ![id].title = images'[id].title,
                              ![id].description = images'[id].description,
                              ![id].sharePassword = images'[id].sharePassword,
                              ![id].tags = images'[id].tags,
                              ![id].updatedAt = images'[id].updatedAt]
             /\ res'.body = images'[id]]_vars

\* A details request with an empty body has cleared the title, the
\* description, the password and the tags an earlier one had set.
C11_Witness ==
    /\ res.route = "details" /\ res.status = 200
    /\ res.arg = [title |-> Undef, description |-> Undef, tags |-> Undef,
                  sharePassword |-> Undef]
    /\ res.before.title = Chars(<<"A", "b">>)
    /\ res.before.tags = <<<<"a">>, <<"b">>>>
    /\ res.before.sharePassword = Str("1")
    /\ res.body.title = Undef /\ res.body.tags = <<>> /\ res.body.sharePassword = Undef
    /\ res.id \in DOMAIN images /\ images[res.id] = res.body

\* ------------------------------------------------------------------ C12

\* C12: in every reachable state each record of the store has its original
\* and its thumbnail file on disk; no operation removes the files while the
\* record exists.  Looked at for the records no delete is working on: a
\* record whose delete is in flight is left out.
C12_ArtifactsPresent ==
    \A i \in DOMAIN images :
        (\A p \in inflight : ~(p.op = "delete" /\ p.id = i))
        => /\ Basename(images[i].originalUrl) \in originals
           /\ Basename(images[i].thumbnailUrl) \in thumbnails

\* ------------------------------------------------------------------ C13

\* The view count of every record against the number n of lookups of it
\* answered 200: at most n, at least 1 once n is, and n when no lookup
\* started while another one of the record was in flight.
C13_Bounds ==
    \A id \in DOMAIN images :
        LET n == ViewsOf(id).ok
            v == images[id].viewCount
        IN  /\ v <= n
            /\ n >= 1 => v >= 1
            /\ ~ViewsOf(id).overlap => v = n

\* A lookup answered 200 stores the count it read, plus one, whatever the
\* record holds by then.
C13_ReadModifyWrite ==
    \A p \in inflight \ inflight' :
        (p.op = "hash" /\ res'.rid = p.rid /\ res'.status = 200)
        => /\ images'[p.id].viewCount = p.viewCount
           /\ p.viewCount <= images[p.id].viewCount + 1

\* C13: lookups by hash increment viewCount by read-modify-write: after any
\* interleaving of N password-matching lookups of a hash that are answered
\* 200, viewCount has grown by at least 1 and at most N, and by exactly N
\* when the lookups do not overlap; each lookup writes the count it read
\* plus one, so that overlapping lookups can lose updates.
C13_Theorem == []C13_Bounds /\ [][C13_ReadModifyWrite]_vars

\* Two overlapping lookups of a record were both answered 200 and its view
\* count is 1: an update was lost.
C13_Witness ==
    \E id \in DOMAIN images :
        /\ ViewsOf(id).ok = 2 /\ ViewsOf(id).overlap
        /\ images[id].viewCount = 1
        /\ \A p \in inflight : ~(p.op = "hash" /\ p.id = id)
        /\ res.route = "hash" /\ res.status = 200

\* ------------------------------------------------------------------ C14

\* The step is the failure of the record creation of upload p, answered 500.
C14_CreateFails(p) ==
    /\ p.op = "upload" /\ p.pc = "create"
    /\ p \notin inflight'
    /\ res'.rid = p.rid /\ res'.status = 500

C15_Answered(p) ==
    /\ p.op = "register"
    /\ p \notin inflight'
    /\ res'.rid = p.rid

\* C15: at most one user record exists per email, and every registration
\* for an email that is in use when it is answered (one that lost a race
\* with a registration of the same email included) is answered 409 and
\* creates no user.
C15_Original ==
    /\ [](\A i, j \in DOMAIN users : users[i].email = users[j].email => i = j)
    /\ [][\A p \in inflight :
            (C15_Answered(p) /\ ByEmail(EmailSetters(p.email)) # {}) =>
                (res'.status = 409 /\ users' = users)]_vars

====
